---- MODULE Spec2Model ----
(***************************************************************************)
(* Fee-to-reward distribution pipeline of token2022spl.                    *)
(*                                                                         *)
(* Five specifications share this module, one per component:               *)
(*   SpecSupervisor  AutomatedDistributor (scripts/automatedDistribution)  *)
(*   SpecTx          TransactionManager   (utils/transactionManager)       *)
(*   SpecAlloc       getTokenHolders / calculateDistributionAmounts        *)
(*   SpecCycle       distributeWBTCToHolders (scripts/distributeWBTC)      *)
(*   SpecSentinel    checkAndTopUpSolBalance / withdrawExcessSol           *)
(* Every specification leaves the variables of the other components at     *)
(* their initial values.                                                   *)
(***************************************************************************)
EXTENDS Integers, Sequences, FiniteSets, TLC

\* ------------------------------------------------------------------------
\* Bounds of the model (not program constants)
\* ------------------------------------------------------------------------
MaxTriggers == 3        \* cron triggers explored
MaxTime == 3            \* clock ticks (minutes) explored
MaxCfgRetries == 2      \* largest AutomationConfig.maxRetries explored
MaxCfgDelay == 2        \* largest AutomationConfig.retryDelay explored
MaxTxRetries == 3       \* largest RetryConfig.maxRetries explored
MaxTxDelay == 2         \* largest RetryConfig.retryDelay explored
MaxBackoff == 2         \* largest RetryConfig.backoffFactor explored
MaxAccounts == 3        \* token accounts enumerated by getProgramAccounts
MaxBalance == 2         \* largest token-account amount
MaxPool == 10           \* largest reward pool
MaxAllocs == 12         \* allocations of one cycle
MaxAmount == 2          \* largest allocation amount of the batch loop
MaxCalls == 2           \* calls of the balance sentinel explored
MaxFeeSteps == 12       \* largest initial fee-collector balance, in Steps
MaxWalletSteps == 20    \* largest initial wallet balance, in Steps
MaxPriceImpact == 2     \* largest priceImpactPct a quote reports
MaxFnRetries == 2       \* largest maxRetries passed to retry()
MaxFnTimeout == 4       \* largest timeout passed to retry(), in seconds

\* owners of token accounts
Owners == {"X", "Y"}

VARIABLES
  \* --- AutomatedDistributor ---
  config,         \* this.config: [maxRetries, retryDelay]
  isProcessing,   \* this.isProcessing
  runCount,       \* this.runCount
  lastRunTime,    \* this.lastRunTime (-1 = undefined)
  cronCycle,      \* position of the distribution cron callback
  retryCycles,    \* retry-timer callbacks awaiting executeDistribution
  timers,         \* pending setTimeout callbacks, as their due times
  now,            \* wall clock, in minutes
  triggers,       \* cron triggers fired so far
  failures,       \* handleFailure calls so far
  exhausted,      \* 'Max retries reached' has been reported
  timerChain,     \* per pending timer: retries its chain has already run
  retryChain,     \* per running retry: its ordinal in its chain
  gaveUpAfter,    \* per 'Max retries reached': retries the chain had run
  unhandled,      \* errors that escaped the cron or the timer callback
  cycleError,     \* what the last failed executeDistribution rejected with
  successes,      \* executions of executeDistribution that resolved
  retryRuns       \* retry-timer callbacks that called executeDistribution

VARIABLES
  \* --- TransactionManager ---
  txImpl,         \* which TransactionManager source runs (see TxImpls)
  retryConfig,    \* this.retryConfig: [maxRetries, retryDelay, backoffFactor]
  pcTx,           \* position inside executeTransaction
  simulation,     \* outcome of the simulation: "none", "ok", "err"
  retryCount,     \* sendWithRetry: retryCount
  delay,          \* sendWithRetry: delay
  attempts,       \* calls of connection.sendTransaction
  broadcasts,     \* transactions the RPC node accepted for the network
  waits,          \* backoff waits performed, in order
  txConfirmed,    \* confirmTransaction has succeeded for the signature
  lastError,      \* sendWithRetry: lastError ("none", "send", "confirm")
  thrown,         \* the error executeTransaction ends with
  confirmLate,    \* the last confirmation wait outlasted the tier's timeout
  transactionType,      \* the label executeTransaction is called with
  confirmationStrategy  \* what getConfirmationStrategy returned

VARIABLES
  \* --- getTokenHolders / calculateDistributionAmounts ---
  accounts,          \* enumerated token accounts: [owner, amount]
  excludeAddresses,  \* exclusion set
  totalWBTCAmount,   \* reward pool
  holders,           \* snapshot: [address, balance, percentage]
  amounts,           \* allocations: [address, amount]
  pcAlloc            \* "start", "holders", "done"

VARIABLES
  \* --- distributeWBTCToHolders ---
  pcCycle,           \* position inside distributeWBTCToHolders
  distributions,     \* allocations: [address, amount]
  i,                 \* index of the batch loop
  built,             \* allocations of the current batch already added
  results,           \* results: [holder, amount, signature], 0 = ''
  totalBatchAmount,  \* totalBatchAmount of the current batch
  txs,               \* batch transactions the network has accepted
  credited,          \* reward asset received by each allocation's holder
  outcome,           \* what the caller gets: [status, results]
  failedAt,          \* loop index at which the cycle failed (-1 = none)
  hopPc,             \* position inside executeJupiterSwap
  swaps,             \* swap hops entered: [hop, priceImpact, requested,
                     \*   submitted, status]
  holderCount,       \* holders.length of the snapshot (-1 = not taken)
  totalFees,         \* totalFees read from the fee account (-1 = not read)
  sendAttempts       \* calls of connection.sendTransaction for the current
                     \*   batch

VARIABLES
  \* --- checkAndTopUpSolBalance / withdrawExcessSol ---
  lamports,          \* the ledger: lamports of feeCollector and of wallet
  lamports0,         \* the ledger before the first call
  calls,             \* per call: position, locals and result
  transfers          \* submitted transfers: [by, from, lamports, status]

VARIABLES
  \* --- retry (utils/retry) ---
  options,           \* the options of the call: [maxRetries, timeout]
  retryPc,           \* "loop", "race", "backoff", "returned", "thrown"
  retryLocals,       \* the locals [retryCount, lastError]
  clock,             \* seconds since retry() was called
  fnCalls,           \* invocations of fn so far
  attempt,           \* the attempt in progress: [startedAt, promise]
  failedAttempts,    \* attempts that rejected: [call, error, startedAt,
                     \*   at, promise]
  returned,          \* the value retry() resolved with
  rejected           \* the error retry() rejected with

supVars == <<config, isProcessing, runCount, lastRunTime, cronCycle,
             retryCycles, timers, now, triggers, failures, exhausted,
             timerChain, retryChain, gaveUpAfter, unhandled, cycleError,
             successes, retryRuns>>

txVars == <<txImpl, retryConfig, pcTx, simulation, retryCount, delay,
            attempts, broadcasts, waits, txConfirmed, lastError, thrown,
            confirmLate, transactionType, confirmationStrategy>>

allocVars == <<accounts, excludeAddresses, totalWBTCAmount, holders, amounts,
               pcAlloc>>

cycleVars == <<pcCycle, distributions, i, built, results, totalBatchAmount,
               txs, credited, outcome, failedAt, hopPc, swaps, holderCount,
               totalFees, sendAttempts>>

sentinelVars == <<lamports, lamports0, calls, transfers>>

retryVars == <<options, retryPc, retryLocals, clock, fnCalls, attempt,
               failedAttempts, returned, rejected>>

vars == <<supVars, txVars, allocVars, cycleVars, sentinelVars, retryVars>>

nonSupVars == <<txVars, allocVars, cycleVars, sentinelVars, retryVars>>
nonTxVars == <<supVars, allocVars, cycleVars, sentinelVars, retryVars>>
nonAllocVars == <<supVars, txVars, cycleVars, sentinelVars, retryVars>>
nonCycleVars == <<supVars, txVars, allocVars, sentinelVars, retryVars>>
nonSentinelVars == <<supVars, txVars, allocVars, cycleVars, retryVars>>
nonRetryVars == <<supVars, txVars, allocVars, cycleVars, sentinelVars>>

\* ------------------------------------------------------------------------
\* Components at rest: the values a component keeps while another
\* component's specification runs
\* ------------------------------------------------------------------------

\* DEFAULT_CONFIG of AutomatedDistributor (retryDelay in minutes)
DEFAULT_CONFIG == [minimumFeeAmount |-> 20000, maxRetries |-> 3, retryDelay |-> 15]

\* DEFAULT_RETRY_CONFIG of TransactionManager (retryDelay in ms)
DEFAULT_RETRY_CONFIG == [maxRetries |-> 3, retryDelay |-> 1000, backoffFactor |-> 2]

\* no error thrown; attempts = -1: the error carries no attempt count
NoError == [kind |-> "none", attempts |-> -1, lastError |-> "none"]

\* getConfirmationStrategy not yet called
NoStrategy == [commitment |-> "none", timeout |-> 0, preflightCommitment |-> "none"]

\* AutomatedDistributor after construction, start() not yet triggered
SupervisorConstructed ==
  /\ isProcessing = FALSE
  /\ runCount = 0
  /\ lastRunTime = -1
  /\ cronCycle = "idle"
  /\ retryCycles = 0
  /\ timers = <<>>
  /\ now = 0
  /\ triggers = 0
  /\ failures = 0
  /\ exhausted = FALSE
  /\ timerChain = <<>>
  /\ retryChain = <<>>
  /\ gaveUpAfter = {}
  /\ unhandled = 0
  /\ cycleError = "none"
  /\ successes = 0
  /\ retryRuns = 0

\* TransactionManager after construction, executeTransaction not yet called
TxConstructed ==
  /\ pcTx = "start"
  /\ simulation = "none"
  /\ retryCount = 0
  /\ delay = 0
  /\ attempts = 0
  /\ broadcasts = 0
  /\ waits = <<>>
  /\ txConfirmed = FALSE
  /\ lastError = "none"
  /\ thrown = NoError
  /\ confirmLate = FALSE
  /\ confirmationStrategy = NoStrategy

\* no snapshot taken yet
AllocFresh ==
  /\ holders = <<>>
  /\ amounts = <<>>
  /\ pcAlloc = "start"

\* distributeWBTCToHolders not yet called
CycleAtRest ==
  /\ pcCycle = "topUp"
  /\ distributions = <<>>
  /\ i = 0
  /\ built = 0
  /\ results = <<>>
  /\ totalBatchAmount = 0
  /\ txs = <<>>
  /\ credited = <<>>
  /\ outcome = [status |-> "running", results |-> <<>>]
  /\ failedAt = -1
  /\ hopPc = "quote"
  /\ swaps = <<>>
  /\ holderCount = -1
  /\ totalFees = -1
  /\ sendAttempts = 0

SupervisorAtRest == config = DEFAULT_CONFIG /\ SupervisorConstructed

TxAtRest ==
  /\ txImpl = "sendOnly"
  /\ transactionType = "SMALL_TRANSFER"
  /\ retryConfig = DEFAULT_RETRY_CONFIG
  /\ TxConstructed

\* @solana/web3.js
LAMPORTS_PER_SOL == 1000000000

MIN_SOL_BALANCE == LAMPORTS_PER_SOL \div 10

TARGET_SOL_BALANCE == LAMPORTS_PER_SOL \div 2

\* a call of the sentinel that has not been made
NoCall ==
  [pc |-> "idle", op |-> "none", balance |-> 0, walletBalance |-> 0,
   amount |-> 0, result |-> "none", error |-> "none", after |-> {}]

\* no sentinel call made; both accounts hold the target balance
SentinelAtRest ==
  /\ lamports = [feeCollector |-> TARGET_SOL_BALANCE, wallet |-> TARGET_SOL_BALANCE]
  /\ lamports0 = lamports
  /\ calls = [c \in 1..MaxCalls |-> NoCall]
  /\ transfers = <<>>

\* retry() resolved with nothing yet
NoReturn == [result |-> <<"none", 0>>, retryCount |-> -1]

\* retry() rejected with nothing yet
NoRejection == [retries |-> -1, lastError |-> <<"none", 0>>]

\* the locals of retry() at lines 24-25, the timer armed at lines 27-31
RetryCalled ==
  /\ retryPc = "loop"
  /\ retryLocals = [retryCount |-> 0, lastError |-> <<"none", 0>>]
  /\ clock = 0
  /\ fnCalls = 0
  /\ attempt = [startedAt |-> 0, promise |-> "none"]
  /\ failedAttempts = <<>>
  /\ returned = NoReturn
  /\ rejected = NoRejection

RetryAtRest ==
  /\ options = [maxRetries |-> 0, timeout |-> 1]
  /\ RetryCalled

AllocAtRest ==
  /\ accounts = <<>>
  /\ excludeAddresses = {}
  /\ totalWBTCAmount = 0
  /\ AllocFresh


\* ------------------------------------------------------------------------
\* utils/transactionConfirmation
\* ------------------------------------------------------------------------

\* the keys of the three objects of TRANSACTION_TYPES
TRANSACTION_TYPES ==
  [SECURE |-> {"INITIAL_MINT", "TOKEN_CREATION", "LARGE_TRANSFER",
               "AUTHORITY_CHANGE"},
   STANDARD |-> {"DISTRIBUTION", "FEE_COLLECTION", "REGULAR_TRANSFER"},
   FAST |-> {"BALANCE_CHECK", "SMALL_TRANSFER", "METADATA_UPDATE"}]

CONFIRMATION_STRATEGY ==
  [FAST |-> [commitment |-> "processed", timeout |-> 30000,
             preflightCommitment |-> "processed"],
   STANDARD |-> [commitment |-> "confirmed", timeout |-> 60000,
                 preflightCommitment |-> "confirmed"],
   SECURE |-> [commitment |-> "finalized", timeout |-> 90000,
               preflightCommitment |-> "finalized"]]

\* property names every object literal inherits from Object.prototype
\* (two of them stand for all)
ObjectPrototypeKeys == {"constructor", "toString"}

\* the JavaScript operator `key in object`: own and inherited properties
HasProperty(key, ownKeys) == key \in ownKeys \cup ObjectPrototypeKeys

GetConfirmationStrategy(label) ==
  LET securityLevel ==
        IF HasProperty(label, TRANSACTION_TYPES.SECURE) THEN "SECURE"
        ELSE IF HasProperty(label, TRANSACTION_TYPES.FAST) THEN "FAST"
        ELSE "STANDARD"
  IN  CONFIRMATION_STRATEGY[securityLevel]

\* isLargeTransfer: the threshold BigInt(1000) * BigInt(10 ** decimals),
\* counted in whole tokens (units of 10 ** decimals)
LargeThreshold == 1000

\* isLargeTransfer: amount >= threshold
IsLargeTransfer(amount) == amount >= LargeThreshold

\* ------------------------------------------------------------------------
\* AutomatedDistributor
\* ------------------------------------------------------------------------

\* the errors distributeWBTCToHolders rejects with: the failed simulation
\* of a swap transaction, or any other error
CycleErrors == {"swapSimulation", "other"}

\* number of executions of executeDistribution that are in progress
RunningCycles == (IF cronCycle = "running" THEN 1 ELSE 0) + retryCycles

RemoveAt(s, k) == [x \in 1..(Len(s) - 1) |-> IF x < k THEN s[x] ELSE s[x + 1]]

\* handleFailure with the guard off by one (runCount <= maxRetries)
HandleFailureTimers_OffByOne ==
  IF runCount <= config.maxRetries
    THEN Append(timers, now + config.retryDelay)
    ELSE timers

\* handleFailure: the timers after the call
HandleFailureTimers ==
  IF runCount < config.maxRetries
    THEN Append(timers, now + config.retryDelay)
    ELSE timers

\* handleFailure: whether 'Max retries reached' is reported
HandleFailureExhausted ==
  IF runCount < config.maxRetries THEN exhausted ELSE TRUE

InitSupervisor ==
  /\ config \in [minimumFeeAmount : {DEFAULT_CONFIG.minimumFeeAmount},
                  maxRetries : 0..MaxCfgRetries, retryDelay : 1..MaxCfgDelay]
  /\ SupervisorConstructed
  /\ TxAtRest
  /\ AllocAtRest
  /\ CycleAtRest
  /\ SentinelAtRest
  /\ RetryAtRest

\* handleFailure: the chain counts of the timers after the call, for a
\* failed execution whose chain has run n retries
HandleFailureTimerChain(n) ==
  IF runCount < config.maxRetries THEN Append(timerChain, n) ELSE timerChain

\* handleFailure: the give-up reports after the call
HandleFailureGaveUp(n) ==
  IF runCount < config.maxRetries THEN gaveUpAfter ELSE gaveUpAfter \cup {n}

\* handleFailure that throws once the retries are exhausted
HandleFailureThrows_OnExhaustion == ~(runCount < config.maxRetries)

\* handleFailure only logs or calls setTimeout: it never throws
HandleFailureThrows == FALSE

\* the skip path leaving through the finally block, which clears the flag
IsProcessingAfterSkip_Cleared == FALSE

\* the skip path returns before the try: the flag is left alone
IsProcessingAfterSkip == isProcessing

\* a cron callback without its finally block
IsProcessingAfterCycle_NoFinally == isProcessing

\* finally { this.isProcessing = false }
IsProcessingAfterCycle == FALSE

\* cron callback, isProcessing set: the trigger is skipped
CronTriggerSkip ==
  /\ triggers < MaxTriggers
  /\ isProcessing
  /\ triggers' = triggers + 1
  /\ isProcessing' = IsProcessingAfterSkip
  /\ UNCHANGED <<config, runCount, lastRunTime, cronCycle,
                 retryCycles, timers, now, failures, exhausted,
                 timerChain, retryChain, gaveUpAfter, unhandled,
                 cycleError>>
  /\ UNCHANGED <<successes, retryRuns>>
  /\ UNCHANGED nonSupVars

\* cron callback, isProcessing clear: set the flag, call executeDistribution
CronTriggerStart ==
  /\ triggers < MaxTriggers
  /\ ~isProcessing
  /\ triggers' = triggers + 1
  /\ isProcessing' = TRUE
  /\ cronCycle' = "running"
  /\ UNCHANGED <<config, runCount, lastRunTime, retryCycles, timers, now,
                 failures, exhausted,
                 timerChain, retryChain, gaveUpAfter, unhandled,
                 cycleError>>
  /\ UNCHANGED <<successes, retryRuns>>
  /\ UNCHANGED nonSupVars

\* executeDistribution of the cron callback resolves; finally clears the flag
CronCycleSucceed ==
  /\ cronCycle = "running"
  /\ lastRunTime' = now
  /\ runCount' = runCount + 1
  /\ isProcessing' = IsProcessingAfterCycle
  /\ cronCycle' = "idle"
  /\ UNCHANGED <<config, retryCycles, timers, now, triggers, failures,
                 exhausted, timerChain, retryChain, gaveUpAfter, unhandled,
                 cycleError>>
  /\ successes' = successes + 1
  /\ UNCHANGED retryRuns
  /\ UNCHANGED nonSupVars

\* executeDistribution of the cron callback rejects: catch runs
\* handleFailure, finally clears the flag
CronCycleFail ==
  /\ \E err \in CycleErrors : cycleError' = err
  /\ cronCycle = "running"
  /\ timers' = HandleFailureTimers
  /\ exhausted' = HandleFailureExhausted
  /\ timerChain' = HandleFailureTimerChain(0)
  /\ gaveUpAfter' = HandleFailureGaveUp(0)
  /\ unhandled' = unhandled + (IF HandleFailureThrows THEN 1 ELSE 0)
  /\ failures' = failures + 1
  /\ isProcessing' = IsProcessingAfterCycle
  /\ cronCycle' = "idle"
  /\ UNCHANGED <<config, runCount, lastRunTime, retryCycles, now, triggers,
                 retryChain>>
  /\ UNCHANGED <<successes, retryRuns>>
  /\ UNCHANGED nonSupVars

\* a retry timer comes due: runCount++, call executeDistribution
RetryTimerFire ==
  \E k \in 1..Len(timers) :
    /\ timers[k] <= now
    /\ timers' = RemoveAt(timers, k)
    /\ timerChain' = RemoveAt(timerChain, k)
    /\ retryChain' = Append(retryChain, timerChain[k] + 1)
    /\ runCount' = runCount + 1
    /\ retryCycles' = retryCycles + 1
    /\ UNCHANGED <<config, isProcessing, lastRunTime, cronCycle, now,
                   triggers, failures, exhausted, gaveUpAfter, unhandled,
                   cycleError>>
    /\ retryRuns' = retryRuns + 1
    /\ UNCHANGED successes
    /\ UNCHANGED nonSupVars

\* executeDistribution of a retry callback resolves
RetryCycleSucceed ==
  /\ retryCycles > 0
  /\ \E r \in 1..Len(retryChain) : retryChain' = RemoveAt(retryChain, r)
  /\ lastRunTime' = now
  /\ runCount' = runCount + 1
  /\ retryCycles' = retryCycles - 1
  /\ UNCHANGED <<config, isProcessing, cronCycle, timers, now, triggers,
                 failures, exhausted, timerChain, gaveUpAfter, unhandled,
                 cycleError>>
  /\ successes' = successes + 1
  /\ UNCHANGED retryRuns
  /\ UNCHANGED nonSupVars

\* executeDistribution of a retry callback rejects: handleFailure again
RetryCycleFail ==
  /\ \E err \in CycleErrors : cycleError' = err
  /\ retryCycles > 0
  /\ \E r \in 1..Len(retryChain) :
       /\ retryChain' = RemoveAt(retryChain, r)
       /\ timerChain' = HandleFailureTimerChain(retryChain[r])
       /\ gaveUpAfter' = HandleFailureGaveUp(retryChain[r])
  /\ timers' = HandleFailureTimers
  /\ exhausted' = HandleFailureExhausted
  /\ unhandled' = unhandled + (IF HandleFailureThrows THEN 1 ELSE 0)
  /\ failures' = failures + 1
  /\ retryCycles' = retryCycles - 1
  /\ UNCHANGED <<config, isProcessing, runCount, lastRunTime, cronCycle,
                 now, triggers>>
  /\ UNCHANGED <<successes, retryRuns>>
  /\ UNCHANGED nonSupVars

\* one minute passes
Tick ==
  /\ now < MaxTime
  /\ now' = now + 1
  /\ UNCHANGED <<config, isProcessing, runCount, lastRunTime, cronCycle,
                 retryCycles, timers, triggers, failures, exhausted,
                 timerChain, retryChain, gaveUpAfter, unhandled,
                 cycleError>>
  /\ UNCHANGED <<successes, retryRuns>>
  /\ UNCHANGED nonSupVars

NextSupervisor ==
  \/ CronTriggerSkip
  \/ CronTriggerStart
  \/ CronCycleSucceed
  \/ CronCycleFail
  \/ RetryTimerFire
  \/ RetryCycleSucceed
  \/ RetryCycleFail
  \/ Tick

SpecSupervisor == InitSupervisor /\ [][NextSupervisor]_vars

\* ------------------------------------------------------------------------
\* Properties of the supervisor
\* ------------------------------------------------------------------------

\* C1: at most one execution of executeDistribution (cron-started or
\* retry-started) is in progress at any time.
C1_AtMostOneCycle == RunningCycles <= 1

\* C2: every cycle failure schedules exactly one retry, due retryDelay
\* minutes later, when runCount < maxRetries at that moment, and schedules
\* none (reporting that manual intervention is required) otherwise.
C2_RetryScheduling ==
  [][failures' = failures + 1 =>
       IF runCount < config.maxRetries
         THEN /\ Len(timers') = Len(timers) + 1
              /\ timers'[Len(timers')] = now + config.retryDelay
              /\ \A k \in 1..Len(timers) : timers'[k] = timers[k]
              /\ exhausted' = exhausted
         ELSE /\ timers' = timers
              /\ exhausted']_vars

\* C2 witness: one failure has scheduled a retry and a later one found the
\* retries exhausted
C2_Witness == failures >= 2 /\ exhausted /\ runCount > 0 /\ config.maxRetries > 0

\* C17: a cron trigger that finds isProcessing set starts no cycle, leaves
\* isProcessing, runCount and lastRunTime alone and is not remembered: a
\* cycle only ever starts in a trigger step that found the flag clear, or
\* when a retry timer fires.
C17_SkippedTrigger ==
  [][/\ (isProcessing /\ triggers' = triggers + 1) =>
          UNCHANGED <<isProcessing, runCount, lastRunTime, cronCycle,
                      retryCycles, retryChain, timers, timerChain>>
     /\ RunningCycles' > RunningCycles =>
          \/ (~isProcessing /\ triggers' = triggers + 1)
          \/ Len(timers') = Len(timers) - 1]_vars

\* C17 witness: the first trigger started a cycle, the second one found it
\* still running and was skipped
C17_Witness ==
  /\ triggers = 2
  /\ isProcessing
  /\ cronCycle = "running"
  /\ runCount = 0
  /\ failures = 0

\* C18: a cron-triggered cycle that has finished, with success or with an
\* error, leaves isProcessing false, and the next trigger starts a cycle.
C18_CycleReturnsToIdle ==
  /\ [](cronCycle = "idle" => ~isProcessing)
  /\ [][(cronCycle = "running" /\ cronCycle' = "idle") => ~isProcessing']_vars
  /\ [][(cronCycle = "idle" /\ triggers' = triggers + 1) =>
          (cronCycle' = "running" /\ isProcessing')]_vars

\* C18 witness: after a failed cron-triggered cycle the next trigger has
\* started a cycle
C18_Witness ==
  /\ triggers = 2
  /\ failures = 1
  /\ retryCycles = 0
  /\ cronCycle = "running"

\* C19: no error escapes the cron callback or the retry-timer callback,
\* and after 'Max retries reached' a cron trigger that finds isProcessing
\* false still starts a cycle.
C19_ExhaustionNotFatal ==
  /\ [](unhandled = 0)
  /\ [][(exhausted /\ ~isProcessing /\ triggers' = triggers + 1) =>
          (cronCycle' = "running" /\ isProcessing')]_vars

\* C19 witness: a cycle runs that was started after retries were exhausted
C19_Witness ==
  /\ exhausted
  /\ config.maxRetries > 0
  /\ cronCycle = "running"
  /\ triggers >= 2
  /\ retryCycles = 0
  /\ timers = <<>>

\* C23: when a cron-triggered cycle fails on the simulation of a swap
\* transaction (maxRetries >= 1), the supervisor schedules exactly one
\* retry, due retryDelay after the failure.
C23_SwapSimulationFailure ==
  [][( /\ cronCycle = "running"
       /\ cronCycle' = "idle"
       /\ failures' = failures + 1
       /\ cycleError' = "swapSimulation"
       /\ config.maxRetries >= 1 ) =>
         /\ Len(timers') = Len(timers) + 1
         /\ timers'[Len(timers')] = now + config.retryDelay]_vars

\* C34: over the lifetime of the supervisor at most maxRetries retry-timer
\* callbacks run executeDistribution.
C34_RetryRunsBounded == retryRuns <= config.maxRetries

\* C35: isProcessing is true exactly while some distribution cycle, cron-
\* triggered or started by a retry timer, is executing.
C35_IsProcessingReflectsCycles == isProcessing <=> RunningCycles > 0

\* C36: runCount is the number of cycles that completed successfully, and
\* a step that completes no cycle successfully leaves runCount and
\* lastRunTime unchanged.
C36_RunCountCountsSuccesses ==
  /\ [](runCount = successes)
  /\ [][successes' = successes =>
         (runCount' = runCount /\ lastRunTime' = lastRunTime)]_vars

\* C20: whenever the supervisor gives up on a failing cycle, that cycle has
\* been retried exactly maxRetries times, whatever ran before it.
C20_RetryBudgetPerCycle ==
  \A n \in gaveUpAfter : n = config.maxRetries

\* ------------------------------------------------------------------------
\* TransactionManager
\*
\* The repository holds two sources of the class.  "simulateAndRetry":
\* executeTransaction simulates, then runs sendWithRetry.  "sendOnly":
\* executeTransaction calls connection.sendTransaction once, with the RPC
\* node's preflight simulation on (skipPreflight: false), and returns the
\* signature without waiting for a confirmation.
\* ------------------------------------------------------------------------
TxImpls == {"simulateAndRetry", "sendOnly"}

\* labels outside TRANSACTION_TYPES: a tier name (what the parameter type
\* keyof typeof TRANSACTION_TYPES admits), an arbitrary string, and names
\* inherited from Object.prototype
UnlistedLabels == {"SECURE", "SWAP"} \cup ObjectPrototypeKeys

Labels ==
  TRANSACTION_TYPES.SECURE \cup TRANSACTION_TYPES.STANDARD
    \cup TRANSACTION_TYPES.FAST \cup UnlistedLabels

InitTx ==
  /\ txImpl \in TxImpls
  /\ transactionType \in Labels
  /\ retryConfig \in [maxRetries : 1..MaxTxRetries,
                      retryDelay : 1..MaxTxDelay,
                      backoffFactor : 1..MaxBackoff]
  /\ TxConstructed
  /\ SupervisorAtRest
  /\ AllocAtRest
  /\ CycleAtRest
  /\ SentinelAtRest
  /\ RetryAtRest

\* simulateTransaction that ignores simulation.value.err
SimulationThrows_Ignored(err) == FALSE

\* simulateTransaction throws when simulation.value.err is set
SimulationThrows(err) == err

\* the loop condition of sendWithRetry, with the guard off by one
LoopContinues_OffByOne(rc) == rc <= retryConfig.maxRetries

\* the loop condition of sendWithRetry (also the guard of the backoff wait)
LoopContinues(rc) == rc < retryConfig.maxRetries

\* delay += backoffFactor in place of delay *= backoffFactor
NextDelay_Additive(d) == d + retryConfig.backoffFactor

\* delay *= this.retryConfig.backoffFactor
NextDelay(d) == d * retryConfig.backoffFactor

\* new Error(`Transaction simulation failed: ...`)
SimulationError == [kind |-> "simulation", attempts |-> -1, lastError |-> "none"]

\* new Error(`Transaction failed after ${retryCount} attempts. Last error:
\* ${lastError?.message}`)
ExhaustedError(rc, err) == [kind |-> "exhausted", attempts |-> rc, lastError |-> err]

\* the error of connection.sendTransaction, rethrown as it is
RawError(err) == [kind |-> "raw", attempts |-> -1, lastError |-> err]

\* sendWithRetry: the attempt fails only when confirmTransaction rejects;
\* confirmationStrategy.timeout is not read, so a wait that outlasts it and
\* then resolves is a success
ConfirmAttemptFails(ok, late) == ~ok

\* executeTransaction ("simulateAndRetry"): simulateTransaction, then the
\* entry of sendWithRetry
ExecuteTransaction_Simulate ==
  /\ txImpl = "simulateAndRetry"
  /\ pcTx = "start"
  /\ \E err \in BOOLEAN :
       /\ simulation' = IF err THEN "err" ELSE "ok"
       /\ IF SimulationThrows(err)
            THEN /\ pcTx' = "thrown"
                 /\ thrown' = SimulationError
                 /\ UNCHANGED <<retryCount, delay, confirmationStrategy>>
            ELSE /\ confirmationStrategy' = GetConfirmationStrategy(transactionType)
                 /\ retryCount' = 0
                 /\ delay' = retryConfig.retryDelay
                 /\ pcTx' = IF LoopContinues(0) THEN "send" ELSE "thrown"
                 /\ thrown' = IF LoopContinues(0) THEN thrown
                                                  ELSE ExhaustedError(0, "none")
  /\ UNCHANGED <<txImpl, retryConfig, attempts, broadcasts, waits, txConfirmed,
                 lastError, confirmLate>>
  /\ UNCHANGED transactionType
  /\ UNCHANGED nonTxVars

\* sendWithRetry: connection.sendTransaction of one attempt
SendWithRetry_Send ==
  /\ pcTx = "send"
  /\ attempts' = attempts + 1
  /\ \E ok \in BOOLEAN :
       IF ok
         THEN /\ broadcasts' = broadcasts + 1
              /\ pcTx' = "confirm"
              /\ UNCHANGED <<retryCount, lastError, thrown>>
         ELSE /\ retryCount' = retryCount + 1
              /\ lastError' = "send"
              /\ pcTx' = IF LoopContinues(retryCount + 1) THEN "backoff" ELSE "thrown"
              /\ thrown' = IF LoopContinues(retryCount + 1)
                             THEN thrown
                             ELSE ExhaustedError(retryCount + 1, "send")
              /\ UNCHANGED broadcasts
  /\ UNCHANGED <<txImpl, retryConfig, simulation, delay, waits, txConfirmed,
                 confirmLate>>
  /\ UNCHANGED <<transactionType, confirmationStrategy>>
  /\ UNCHANGED nonTxVars

\* sendWithRetry: getLatestBlockhash and confirmTransaction of one attempt;
\* the wait may or may not outlast the timeout of the confirmation tier
SendWithRetry_Confirm ==
  /\ pcTx = "confirm"
  /\ \E ok \in BOOLEAN, late \in BOOLEAN :
       /\ confirmLate' = late
       /\ IF ~ConfirmAttemptFails(ok, late)
            THEN /\ txConfirmed' = TRUE
                 /\ pcTx' = "returned"
                 /\ UNCHANGED <<retryCount, lastError, thrown>>
            ELSE /\ retryCount' = retryCount + 1
                 /\ lastError' = "confirm"
                 /\ pcTx' = IF LoopContinues(retryCount + 1) THEN "backoff" ELSE "thrown"
                 /\ thrown' = IF LoopContinues(retryCount + 1)
                                THEN thrown
                                ELSE ExhaustedError(retryCount + 1, "confirm")
                 /\ UNCHANGED txConfirmed
  /\ UNCHANGED <<txImpl, retryConfig, simulation, delay, attempts, broadcasts, waits>>
  /\ UNCHANGED <<transactionType, confirmationStrategy>>
  /\ UNCHANGED nonTxVars

\* sendWithRetry: the wait before the next attempt
SendWithRetry_Wait ==
  /\ pcTx = "backoff"
  /\ waits' = Append(waits, delay)
  /\ delay' = NextDelay(delay)
  /\ pcTx' = "send"
  /\ UNCHANGED <<txImpl, retryConfig, simulation, retryCount, attempts,
                 broadcasts, txConfirmed, lastError, thrown, confirmLate>>
  /\ UNCHANGED <<transactionType, confirmationStrategy>>
  /\ UNCHANGED nonTxVars

\* executeTransaction ("sendOnly"): one connection.sendTransaction with
\* preflight; the node simulates first and rejects without broadcasting
ExecuteTransaction_SendOnly ==
  /\ txImpl = "sendOnly"
  /\ pcTx = "start"
  /\ attempts' = attempts + 1
  /\ \E rpc \in {"preflightErr", "sendErr", "ok"} :
       /\ simulation' = IF rpc = "preflightErr" THEN "err" ELSE "ok"
       /\ broadcasts' = IF rpc = "ok" THEN broadcasts + 1 ELSE broadcasts
       /\ pcTx' = IF rpc = "ok" THEN "returned" ELSE "thrown"
       /\ thrown' = IF rpc = "ok" THEN thrown ELSE RawError("send")
  /\ UNCHANGED <<txImpl, retryConfig, retryCount, delay, waits, txConfirmed,
                 lastError, confirmLate>>
  /\ UNCHANGED <<transactionType, confirmationStrategy>>
  /\ UNCHANGED nonTxVars

NextTx ==
  \/ ExecuteTransaction_Simulate
  \/ SendWithRetry_Send
  \/ SendWithRetry_Confirm
  \/ SendWithRetry_Wait
  \/ ExecuteTransaction_SendOnly

SpecTx == InitTx /\ [][NextTx]_vars

\* ------------------------------------------------------------------------
\* Properties of the TransactionManager
\* ------------------------------------------------------------------------

\* C3: one executeTransaction call makes at most maxRetries submission
\* attempts, whatever submission and confirmation failures occur.
C3_AttemptsBounded == attempts <= retryConfig.maxRetries

\* C3 witness: every attempt of the retry loop failed and the budget of
\* several attempts is used up
C3_Witness ==
  /\ txImpl = "simulateAndRetry"
  /\ pcTx = "thrown"
  /\ simulation = "ok"
  /\ retryConfig.maxRetries >= 2
  /\ attempts = retryConfig.maxRetries

\* C4: a simulation error makes executeTransaction fail at once: nothing
\* reaches the network, there is no retry and no wait; where the
\* simulation is a call of its own, sendTransaction is never called.
C4_SimulationErrorAborts ==
  simulation = "err" =>
    /\ pcTx = "thrown"
    /\ broadcasts = 0
    /\ retryCount = 0
    /\ waits = <<>>
    /\ (txImpl = "simulateAndRetry" => attempts = 0)

\* C4 witness: simulateTransaction reported an error and the call has thrown
C4_Witness ==
  /\ txImpl = "simulateAndRetry"
  /\ simulation = "err"
  /\ pcTx = "thrown"
  /\ attempts = 0

\* C14: a signature is returned only once its confirmation has succeeded;
\* any other end of the call (a failed simulation aside) is one error that
\* carries the number of attempts made and the last underlying error.
C14_ConfirmedOrTerminalError ==
  /\ pcTx = "returned" => txConfirmed
  /\ (pcTx = "thrown" /\ simulation # "err") =>
       /\ thrown.attempts = attempts
       /\ thrown.lastError # "none"

\* C15: a confirmation wait that outlasts the tier's timeout counts as a
\* failed attempt and is never reported as a successful execution.
C15_TimeoutIsFailure ==
  (pcTx = "returned" /\ txConfirmed) => ~confirmLate

RECURSIVE Pow(_, _)
Pow(b, e) == IF e = 0 THEN 1 ELSE b * Pow(b, e - 1)

RECURSIVE SumSeq(_)
SumSeq(q) == IF q = <<>> THEN 0 ELSE q[1] + SumSeq(Tail(q))

RECURSIVE GeometricSum(_, _, _)
GeometricSum(base, factor, n) ==
  IF n = 0 THEN 0 ELSE base * Pow(factor, n - 1) + GeometricSum(base, factor, n - 1)

\* C16: the wait before the k-th retry is retryDelay * backoffFactor^k,
\* waits only separate attempts (none follows the final failed attempt),
\* and the total wait stays within the sum of retryDelay * backoffFactor^i
\* for i in [0, maxRetries).
C16_BackoffSchedule ==
  /\ \A k \in 1..Len(waits) :
       waits[k] = retryConfig.retryDelay * Pow(retryConfig.backoffFactor, k - 1)
  /\ pcTx = "send" => Len(waits) = attempts
  /\ (attempts >= 1 /\ pcTx # "send") => Len(waits) = attempts - 1
  /\ pcTx = "backoff" => attempts < retryConfig.maxRetries
  /\ SumSeq(waits) <= GeometricSum(retryConfig.retryDelay,
                                   retryConfig.backoffFactor,
                                   retryConfig.maxRetries)

\* C16 witness: three attempts failed, two growing waits lay between them
C16_Witness ==
  /\ pcTx = "thrown"
  /\ attempts = 3
  /\ retryConfig.backoffFactor = 2
  /\ Len(waits) = 2
  /\ waits[2] = 2 * waits[1]

\* C30: the strategy selected for a label is the one of the tier under
\* which TRANSACTION_TYPES lists it: secure (finalized, 90 s) for the four
\* SECURE labels, fast (processed, 30 s) for the three FAST labels, standard
\* (confirmed, 60 s) for the three STANDARD labels and for every other
\* label.
C30_LabelSelectsTier ==
  confirmationStrategy # NoStrategy =>
    IF transactionType \in {"INITIAL_MINT", "TOKEN_CREATION", "LARGE_TRANSFER",
                            "AUTHORITY_CHANGE"}
      THEN /\ confirmationStrategy.commitment = "finalized"
           /\ confirmationStrategy.timeout = 90000
    ELSE IF transactionType \in {"BALANCE_CHECK", "SMALL_TRANSFER",
                                 "METADATA_UPDATE"}
      THEN /\ confirmationStrategy.commitment = "processed"
           /\ confirmationStrategy.timeout = 30000
    ELSE /\ confirmationStrategy.commitment = "confirmed"
         /\ confirmationStrategy.timeout = 60000

\* ------------------------------------------------------------------------
\* getTokenHolders and calculateDistributionAmounts
\* ------------------------------------------------------------------------

\* sequences over S of length at most n
SeqsUpTo(S, n) == UNION {[1..m -> S] : m \in 0..n}

RECURSIVE SumAmount(_)
SumAmount(s) == IF s = <<>> THEN 0 ELSE s[1].amount + SumAmount(Tail(s))

RECURSIVE SumBalance(_)
SumBalance(s) == IF s = <<>> THEN 0 ELSE s[1].balance + SumBalance(Tail(s))

\* the filter of getTokenHolders without the exclusion test
KeepAccount_NoExclusion(acc, excludeSet) == acc.amount > 0

\* the filter of getTokenHolders: positive amount, owner not excluded
KeepAccount(acc, excludeSet) ==
  acc.amount > 0 /\ acc.owner \notin excludeSet

\* the loop of getTokenHolders over the enumerated accounts
RECURSIVE CollectHolders(_, _)
CollectHolders(accs, excludeSet) ==
  IF accs = <<>> THEN <<>>
  ELSE LET rest == CollectHolders(Tail(accs), excludeSet)
       IN IF KeepAccount(accs[1], excludeSet)
            THEN <<[address |-> accs[1].owner,
                    balance |-> accs[1].amount,
                    percentage |-> 0]>> \o rest
            ELSE rest

\* Number((balance * 10000n) / totalSupply / 100n)
Percentage(balance, totalSupply) == ((balance * 10000) \div totalSupply) \div 100

\* getTokenHolders: the snapshot with its percentages
GetTokenHolders(accs, excludeSet) ==
  LET collected == CollectHolders(accs, excludeSet)
      totalSupply == SumBalance(collected)
  IN [k \in 1..Len(collected) |->
        [collected[k] EXCEPT !.percentage = Percentage(collected[k].balance, totalSupply)]]

\* (total * floor(percentage * 100)) rounded up instead of down
DistributionAmount_Ceiling(percentage, total) ==
  (total * (percentage * 100) + 9999) \div 10000

\* (totalWBTCAmount * BigInt(Math.floor(percentage * 100))) / 10000n
DistributionAmount(percentage, total) == (total * (percentage * 100)) \div 10000

\* calculateDistributionAmounts
CalculateDistributionAmounts(hs, total) ==
  [k \in 1..Len(hs) |->
     [address |-> hs[k].address,
      amount |-> DistributionAmount(hs[k].percentage, total)]]

\* two further inputs: three holders with balances 40, 35, 25 and a pool of
\* 1000; three holders with balance 1 each and a pool of 10
ScenarioA ==
  [accounts |-> <<[owner |-> "X", amount |-> 40], [owner |-> "Y", amount |-> 35],
                  [owner |-> "Z", amount |-> 25]>>,
   totalWBTCAmount |-> 1000]

ScenarioB ==
  [accounts |-> <<[owner |-> "X", amount |-> 1], [owner |-> "Y", amount |-> 1],
                  [owner |-> "Z", amount |-> 1]>>,
   totalWBTCAmount |-> 10]

InitAlloc ==
  /\ \/ /\ accounts \in SeqsUpTo([owner : Owners, amount : 0..MaxBalance], MaxAccounts)
        /\ excludeAddresses \in SUBSET Owners
        /\ totalWBTCAmount \in 0..MaxPool
     \/ \E sc \in {ScenarioA, ScenarioB} :
          /\ accounts = sc.accounts
          /\ excludeAddresses = {}
          /\ totalWBTCAmount = sc.totalWBTCAmount
  /\ AllocFresh
  /\ SupervisorAtRest
  /\ TxAtRest
  /\ CycleAtRest
  /\ SentinelAtRest
  /\ RetryAtRest

\* getTokenHolders(connection, mint, excludeAddresses)
TakeSnapshot ==
  /\ pcAlloc = "start"
  /\ holders' = GetTokenHolders(accounts, excludeAddresses)
  /\ pcAlloc' = "holders"
  /\ UNCHANGED <<accounts, excludeAddresses, totalWBTCAmount, amounts>>
  /\ UNCHANGED nonAllocVars

\* calculateDistributionAmounts(holders, totalWBTCAmount)
ComputeAllocations ==
  /\ pcAlloc = "holders"
  /\ amounts' = CalculateDistributionAmounts(holders, totalWBTCAmount)
  /\ pcAlloc' = "done"
  /\ UNCHANGED <<accounts, excludeAddresses, totalWBTCAmount, holders>>
  /\ UNCHANGED nonAllocVars

NextAlloc ==
  \/ TakeSnapshot
  \/ ComputeAllocations

SpecAlloc == InitAlloc /\ [][NextAlloc]_vars

\* ------------------------------------------------------------------------
\* Properties of the snapshot and the allocation
\* ------------------------------------------------------------------------

\* C5: the allocations never exceed the reward pool and the undistributed
\* shortfall is strictly less than the number of holders.
C5_ShortfallBelowHolderCount ==
  (pcAlloc = "done" /\ Len(holders) > 0) =>
    /\ SumAmount(amounts) <= totalWBTCAmount
    /\ totalWBTCAmount - SumAmount(amounts) < Len(holders)

\* C6: each allocation is the single floor division
\* floor(balance * RewardPool / sum of all snapshot balances).
C6_SingleFloorDivision ==
  pcAlloc = "done" =>
    \A k \in 1..Len(amounts) :
      amounts[k].amount =
        (holders[k].balance * totalWBTCAmount) \div SumBalance(holders)

\* indices of the enumerated accounts that qualify as holders
QualifyingAccounts ==
  {k \in 1..Len(accounts) :
     accounts[k].amount > 0 /\ accounts[k].owner \notin excludeAddresses}

\* the m-th smallest element of a set of numbers
NthOf(S, m) == CHOOSE x \in S : Cardinality({y \in S : y < x}) = m - 1

\* C10: the snapshot holds no excluded owner and no zero balance, and holds
\* every other enumerated account (once each, in enumeration order).
C10_SnapshotFilter ==
  pcAlloc # "start" =>
    /\ \A m \in 1..Len(holders) :
         holders[m].address \notin excludeAddresses /\ holders[m].balance > 0
    /\ Len(holders) = Cardinality(QualifyingAccounts)
    /\ \A m \in 1..Len(holders) :
         /\ holders[m].address = accounts[NthOf(QualifyingAccounts, m)].owner
         /\ holders[m].balance = accounts[NthOf(QualifyingAccounts, m)].amount

\* C10 witness: an excluded owner with a positive balance and a zero-balance
\* account were enumerated before an account that the snapshot keeps
C10_Witness ==
  /\ pcAlloc # "start"
  /\ Len(accounts) = 3
  /\ accounts[1].owner \in excludeAddresses /\ accounts[1].amount > 0
  /\ accounts[2].owner \notin excludeAddresses /\ accounts[2].amount = 0
  /\ Len(holders) = 1
  /\ holders[1].address = accounts[3].owner

\* the amounts of the allocations, in order
AmountsOf(allocs) == [k \in 1..Len(allocs) |-> allocs[k].amount]

\* C29: balances 40, 35, 25 with a pool of 1000 give 400, 350, 250 and
\* shortfall 0; balances 1, 1, 1 with a pool of 10 give 3, 3, 3 and
\* shortfall 1.
C29_WorkedExamples ==
  pcAlloc = "done" =>
    /\ ( /\ accounts = ScenarioA.accounts
         /\ totalWBTCAmount = ScenarioA.totalWBTCAmount
         /\ excludeAddresses = {} ) =>
           /\ AmountsOf(amounts) = <<400, 350, 250>>
           /\ \A k \in 1..3 : amounts[k].address = accounts[k].owner
           /\ totalWBTCAmount - SumAmount(amounts) = 0
    /\ ( /\ accounts = ScenarioB.accounts
         /\ totalWBTCAmount = ScenarioB.totalWBTCAmount
         /\ excludeAddresses = {} ) =>
           /\ AmountsOf(amounts) = <<3, 3, 3>>
           /\ \A k \in 1..3 : amounts[k].address = accounts[k].owner
           /\ totalWBTCAmount - SumAmount(amounts) = 1

\* C29 witness: the second example computed, one unit left undistributed
C29_Witness ==
  /\ pcAlloc = "done"
  /\ accounts = ScenarioB.accounts
  /\ totalWBTCAmount = ScenarioB.totalWBTCAmount
  /\ SumAmount(amounts) = totalWBTCAmount - 1

\* C39: each owner address appears at most once in the holder snapshot and
\* at most once in the allocation list.
C39_OwnerAppearsOnce ==
  /\ \A m, n \in 1..Len(holders) :
       holders[m].address = holders[n].address => m = n
  /\ \A m, n \in 1..Len(amounts) :
       amounts[m].address = amounts[n].address => m = n

\* ------------------------------------------------------------------------
\* distributeWBTCToHolders
\* ------------------------------------------------------------------------
BATCH_SIZE == 5

\* the awaited steps before the batch loop, in program order
Stages == <<"topUp", "readFees", "swapReserve", "swapSol", "swapWBTC",
            "holders", "calc">>

StageIndex(name) == CHOOSE k \in 1..Len(Stages) : Stages[k] = name

Min(a, b) == IF a < b THEN a ELSE b

\* distributions.slice(i, i + BATCH_SIZE).length
BatchLength(from) == Min(BATCH_SIZE, Len(distributions) - from)

\* the rejection of the function carries the error alone; results is a
\* local of the call and is gone
FailedOutcome == [status |-> "failed", results |-> <<>>]

\* an error inside the batch loop caught and the loop resumed
PcAfterError_Continue == "build"

\* an error leaves the loop for the catch of the function, which rethrows
PcAfterError == "failed"

\* the batch is taken as confirmed without awaiting confirmTransaction
ConfirmResolves_NotAwaited(t) == TRUE

\* confirmTransaction resolves only for a transaction that has landed
ConfirmResolves(t) == txs[t].status = "landed"

\* allocation amounts explored, in whole tokens (10^9 base units): small
\* ones, and the two around a fifth of the large-transfer threshold
Amounts == (1..MaxAmount) \cup {LargeThreshold \div BATCH_SIZE,
                                LargeThreshold \div BATCH_SIZE + 1}

\* the loop advances by one allocation less than a batch
NextBatchStart_Overlap(idx) == idx + BATCH_SIZE - 1

\* the loop increment i += BATCH_SIZE
NextBatchStart(idx) == idx + BATCH_SIZE

\* every result pushed so far is stamped
InBatch_WholeList(j, first, len) == TRUE

\* the stamping loop: for (let j = i; j < i + batch.length; j++), with j
\* counted from 1 here
InBatch(j, first, len) == j > first /\ j <= first + len

\* the confirmation strategy of a batch of the given total
BatchStrategy(total) ==
  IF IsLargeTransfer(total) THEN GetConfirmationStrategy("LARGE_TRANSFER")
                            ELSE GetConfirmationStrategy("REGULAR_TRANSFER")

\* the position after the loop condition i < distributions.length
LoopPc(idx, n) == IF idx < n THEN "build" ELSE "done"

InitCycle ==
  /\ CycleAtRest
  /\ SupervisorAtRest
  /\ TxAtRest
  /\ AllocAtRest
  /\ SentinelAtRest
  /\ RetryAtRest

\* an error thrown anywhere in the function body
Throw ==
  /\ pcCycle' = PcAfterError
  /\ outcome' = FailedOutcome
  /\ failedAt' = IF pcCycle \in {"build", "send", "confirm"} /\ failedAt < 0
                   THEN i ELSE failedAt

\* the three swap hops of the cycle
SwapStages == {"swapReserve", "swapSol", "swapWBTC"}

\* the ends of a hop that did not complete
FailedHop ==
  {"quoteFailed", "requestFailed", "simulationFailed", "sendFailed",
   "confirmFailed"}

\* the catch blocks of the swap functions swallow the error
SwapRethrows_Swallowed == FALSE

\* executeJupiterSwap, swapTokensToSol and swapSolToWBTC: catch (error)
\* { console.error(...); throw error; }
SwapRethrows == TRUE

\* the effect of an error inside a swap hop on the cycle
SwapThrow ==
  IF SwapRethrows
    THEN /\ Throw
         /\ UNCHANGED hopPc
    ELSE /\ pcCycle' = Stages[StageIndex(pcCycle) + 1]
         /\ hopPc' = "quote"
         /\ UNCHANGED <<outcome, failedAt>>

\* fee amounts the fee account may hold, in base units: nothing, one unit
\* below the configured minimum, the minimum, one unit above
FeeAmounts ==
  {0, DEFAULT_CONFIG.minimumFeeAmount - 1, DEFAULT_CONFIG.minimumFeeAmount,
   DEFAULT_CONFIG.minimumFeeAmount + 1}

\* the top-up check or the read of the fee account resolves or rejects;
\* the read yields totalFees = feeAccountInfo.amount
RunStage ==
  /\ pcCycle \in {"topUp", "readFees"}
  /\ \E ok \in BOOLEAN, fees \in FeeAmounts :
       IF ok
         THEN /\ pcCycle' = Stages[StageIndex(pcCycle) + 1]
              /\ totalFees' = IF pcCycle = "readFees" THEN fees ELSE totalFees
              /\ UNCHANGED <<outcome, failedAt>>
         ELSE /\ Throw
              /\ UNCHANGED totalFees
  /\ UNCHANGED <<distributions, i, built, results, totalBatchAmount, txs,
                 credited, hopPc, swaps, holderCount>>
  /\ UNCHANGED sendAttempts
  /\ UNCHANGED nonCycleVars

\* executeJupiterSwap: the quote request; the response carries a price
\* impact, which the function does not read
SwapQuote ==
  /\ pcCycle \in SwapStages
  /\ hopPc = "quote"
  /\ \E ok \in BOOLEAN, impact \in 0..MaxPriceImpact :
       IF ok
         THEN /\ swaps' = Append(swaps, [hop |-> pcCycle, priceImpact |-> impact,
                                        requested |-> FALSE, submitted |-> FALSE,
                                        status |-> "quoted"])
              /\ hopPc' = "swapTx"
              /\ UNCHANGED <<pcCycle, outcome, failedAt>>
         ELSE /\ swaps' = Append(swaps, [hop |-> pcCycle, priceImpact |-> 0,
                                        requested |-> FALSE, submitted |-> FALSE,
                                        status |-> "quoteFailed"])
              /\ SwapThrow
  /\ UNCHANGED <<distributions, i, built, results, totalBatchAmount, txs,
                 credited, holderCount>>
  /\ UNCHANGED <<totalFees, sendAttempts>>
  /\ UNCHANGED nonCycleVars

\* executeJupiterSwap: the request of the serialized swap transaction
SwapRequestTransaction ==
  /\ pcCycle \in SwapStages
  /\ hopPc = "swapTx"
  /\ \E ok \in BOOLEAN :
       IF ok
         THEN /\ swaps' = [swaps EXCEPT ![Len(swaps)] =
                            [@ EXCEPT !.requested = TRUE, !.status = "requested"]]
              /\ hopPc' = "send"
              /\ UNCHANGED <<pcCycle, outcome, failedAt>>
         ELSE /\ swaps' = [swaps EXCEPT ![Len(swaps)] =
                            [@ EXCEPT !.requested = TRUE, !.status = "requestFailed"]]
              /\ SwapThrow
  /\ UNCHANGED <<distributions, i, built, results, totalBatchAmount, txs,
                 credited, holderCount>>
  /\ UNCHANGED <<totalFees, sendAttempts>>
  /\ UNCHANGED nonCycleVars

\* executeJupiterSwap: connection.sendTransaction(transaction); the node
\* simulates the transaction first and broadcasts it only if that succeeds
SwapSend ==
  /\ pcCycle \in SwapStages
  /\ hopPc = "send"
  /\ \E rpc \in {"preflightErr", "sendErr", "ok"} :
       IF rpc = "ok"
         THEN /\ swaps' = [swaps EXCEPT ![Len(swaps)] =
                            [@ EXCEPT !.submitted = TRUE, !.status = "pending"]]
              /\ hopPc' = "confirm"
              /\ UNCHANGED <<pcCycle, outcome, failedAt>>
         ELSE /\ swaps' = [swaps EXCEPT ![Len(swaps)].status =
                            IF rpc = "preflightErr" THEN "simulationFailed"
                                                    ELSE "sendFailed"]
              /\ SwapThrow
  /\ UNCHANGED <<distributions, i, built, results, totalBatchAmount, txs,
                 credited, holderCount>>
  /\ UNCHANGED <<totalFees, sendAttempts>>
  /\ UNCHANGED nonCycleVars

\* executeJupiterSwap: connection.confirmTransaction(signature, 'confirmed')
\* resolves, and the hop returns, or rejects
SwapConfirm ==
  /\ pcCycle \in SwapStages
  /\ hopPc = "confirm"
  /\ \E ok \in BOOLEAN :
       IF ok
         THEN /\ swaps' = [swaps EXCEPT ![Len(swaps)].status = "confirmed"]
              /\ pcCycle' = Stages[StageIndex(pcCycle) + 1]
              /\ hopPc' = "quote"
              /\ UNCHANGED <<outcome, failedAt>>
         ELSE /\ swaps' = [swaps EXCEPT ![Len(swaps)].status = "confirmFailed"]
              /\ SwapThrow
  /\ UNCHANGED <<distributions, i, built, results, totalBatchAmount, txs,
                 credited, holderCount>>
  /\ UNCHANGED <<totalFees, sendAttempts>>
  /\ UNCHANGED nonCycleVars

\* getTokenHolders resolves with the snapshot or rejects
TakeHolderSnapshot ==
  /\ pcCycle = "holders"
  /\ \E ok \in BOOLEAN, n \in 0..MaxAllocs :
       IF ok
         THEN /\ holderCount' = n
              /\ pcCycle' = "calc"
              /\ UNCHANGED <<outcome, failedAt>>
         ELSE /\ Throw
              /\ UNCHANGED holderCount
  /\ UNCHANGED <<distributions, i, built, results, totalBatchAmount, txs,
                 credited, hopPc, swaps>>
  /\ UNCHANGED <<totalFees, sendAttempts>>
  /\ UNCHANGED nonCycleVars

\* calculateDistributionAmounts returns one allocation per holder of the
\* snapshot; the batch loop is entered
CalcDistributions ==
  /\ pcCycle = "calc"
  /\ \E a \in Amounts :
       /\ distributions' = [k \in 1..holderCount |-> [address |-> k, amount |-> a]]
       /\ credited' = [k \in 1..holderCount |-> 0]
       /\ pcCycle' = LoopPc(0, holderCount)
       /\ outcome' = IF holderCount = 0
                       THEN [status |-> "succeeded", results |-> <<>>]
                       ELSE outcome
  /\ i' = 0
  /\ built' = 0
  /\ totalBatchAmount' = 0
  /\ UNCHANGED <<results, txs, failedAt, hopPc, swaps, holderCount>>
  /\ UNCHANGED <<totalFees, sendAttempts>>
  /\ UNCHANGED nonCycleVars

\* inner loop: getOrCreateAssociatedTokenAccount for one allocation, then
\* the transfer instruction and the results entry
BuildEntry ==
  /\ pcCycle = "build"
  /\ built < BatchLength(i)
  /\ \E ok \in BOOLEAN :
       IF ok
         THEN LET dist == distributions[i + built + 1]
              IN /\ results' = Append(results, [holder |-> dist.address,
                                                amount |-> dist.amount,
                                                signature |-> 0])
                 /\ totalBatchAmount' = totalBatchAmount + dist.amount
                 /\ built' = built + 1
                 /\ pcCycle' = IF built + 1 = BatchLength(i) THEN "send" ELSE "build"
                 /\ UNCHANGED <<outcome, failedAt>>
         ELSE /\ Throw
              /\ UNCHANGED <<results, totalBatchAmount, built>>
  /\ UNCHANGED <<distributions, i, txs, credited>>
  /\ UNCHANGED <<hopPc, swaps, holderCount>>
  /\ UNCHANGED <<totalFees, sendAttempts>>
  /\ UNCHANGED nonCycleVars

\* connection.sendTransaction(batchTransaction, [wallet])
SendBatch ==
  /\ pcCycle = "send"
  /\ \E ok \in BOOLEAN :
       IF ok
         THEN /\ txs' = Append(txs, [first |-> i, size |-> built,
                                    status |-> "pending", confirmed |-> FALSE,
                                    total |-> totalBatchAmount,
                                    strategy |-> BatchStrategy(totalBatchAmount)])
              /\ pcCycle' = "confirm"
              /\ UNCHANGED <<outcome, failedAt>>
         ELSE /\ Throw
              /\ UNCHANGED txs
  /\ UNCHANGED <<distributions, i, built, results, totalBatchAmount, credited>>
  /\ UNCHANGED <<hopPc, swaps, holderCount>>
  /\ sendAttempts' = sendAttempts + 1
  /\ UNCHANGED totalFees
  /\ UNCHANGED nonCycleVars

\* the network executes a pending batch transaction
LedgerLand ==
  /\ \E t \in 1..Len(txs) :
       /\ txs[t].status = "pending"
       /\ txs' = [txs EXCEPT ![t].status = "landed"]
       /\ credited' = [k \in 1..Len(credited) |->
                         IF k > txs[t].first /\ k <= txs[t].first + txs[t].size
                           THEN credited[k] + distributions[k].amount
                           ELSE credited[k]]
  /\ UNCHANGED <<pcCycle, distributions, i, built, results, totalBatchAmount,
                 outcome, failedAt>>
  /\ UNCHANGED <<hopPc, swaps, holderCount>>
  /\ UNCHANGED <<totalFees, sendAttempts>>
  /\ UNCHANGED nonCycleVars

\* the network drops a pending batch transaction
LedgerDrop ==
  /\ \E t \in 1..Len(txs) :
       /\ txs[t].status = "pending"
       /\ txs' = [txs EXCEPT ![t].status = "dropped"]
  /\ UNCHANGED <<pcCycle, distributions, i, built, results, totalBatchAmount,
                 credited, outcome, failedAt>>
  /\ UNCHANGED <<hopPc, swaps, holderCount>>
  /\ UNCHANGED <<totalFees, sendAttempts>>
  /\ UNCHANGED nonCycleVars

\* getLatestBlockhash and confirmTransaction resolve: stamp the batch's
\* results, advance the loop
ConfirmBatch ==
  /\ pcCycle = "confirm"
  /\ ConfirmResolves(Len(txs))
  /\ LET stamped == [j \in 1..Len(results) |->
                       IF InBatch(j, i, BatchLength(i))
                         THEN [results[j] EXCEPT !.signature = Len(txs)]
                         ELSE results[j]]
     IN /\ results' = stamped
        /\ pcCycle' = LoopPc(NextBatchStart(i), Len(distributions))
        /\ outcome' = IF LoopPc(NextBatchStart(i), Len(distributions)) = "done"
                        THEN [status |-> "succeeded", results |-> stamped]
                        ELSE outcome
  /\ txs' = [txs EXCEPT ![Len(txs)].confirmed = TRUE]
  /\ i' = NextBatchStart(i)
  /\ built' = 0
  /\ totalBatchAmount' = 0
  /\ UNCHANGED <<distributions, credited, failedAt>>
  /\ UNCHANGED <<hopPc, swaps, holderCount>>
  /\ sendAttempts' = 0
  /\ UNCHANGED totalFees
  /\ UNCHANGED nonCycleVars

\* getLatestBlockhash or confirmTransaction rejects (error, expiry)
ConfirmFails ==
  /\ pcCycle = "confirm"
  /\ Throw
  /\ UNCHANGED <<distributions, i, built, results, totalBatchAmount, txs, credited>>
  /\ UNCHANGED <<hopPc, swaps, holderCount>>
  /\ UNCHANGED <<totalFees, sendAttempts>>
  /\ UNCHANGED nonCycleVars

NextCycle ==
  \/ RunStage
  \/ SwapQuote
  \/ SwapRequestTransaction
  \/ SwapSend
  \/ SwapConfirm
  \/ TakeHolderSnapshot
  \/ CalcDistributions
  \/ BuildEntry
  \/ SendBatch
  \/ LedgerLand
  \/ LedgerDrop
  \/ ConfirmBatch
  \/ ConfirmFails

SpecCycle == InitCycle /\ [][NextCycle]_vars

\* ------------------------------------------------------------------------
\* Properties of the batch loop
\* ------------------------------------------------------------------------

ConfirmedTxs == {t \in 1..Len(txs) : txs[t].confirmed}

\* the allocations carried by batch transaction t
AllocationsOf(t) == (txs[t].first + 1)..(txs[t].first + txs[t].size)

C8_SequentialBatches ==
  /\ Cardinality({t \in 1..Len(txs) : txs[t].status = "pending"}) <= 1
  /\ \A t \in 2..Len(txs) : txs[t - 1].confirmed /\ txs[t - 1].status = "landed"
  /\ Len(results) <= BATCH_SIZE * (Cardinality(ConfirmedTxs) + 1)

\* C8 witness: the second batch is in flight, the first one is confirmed
C8_Witness ==
  /\ Len(txs) = 2
  /\ txs[2].status = "pending"
  /\ txs[1].confirmed
  /\ pcCycle = "confirm"

\* C9: a cycle that fails after confirmed batches still hands their
\* outcomes (holder, amount, transaction identifier) to its caller.
C9_FailedCycleKeepsOutcomes ==
  (outcome.status = "failed" /\ ConfirmedTxs # {}) =>
    \A t \in ConfirmedTxs : \A k \in AllocationsOf(t) :
      \E r \in 1..Len(outcome.results) :
        /\ outcome.results[r].holder = distributions[k].address
        /\ outcome.results[r].amount = distributions[k].amount
        /\ outcome.results[r].signature = t

\* the hops whose swap transaction was broadcast
SubmittedSwaps == {h \in 1..Len(swaps) : swaps[h].submitted}

C22_SnapshotBeforeSwaps ==
  /\ pcCycle = "topUp" => (swaps = <<>> /\ holderCount = -1)
  /\ SubmittedSwaps # {} => holderCount >= 0
  /\ txs # <<>> =>
       (Len(swaps) = 3 /\ \A h \in 1..3 : swaps[h].status = "confirmed")

\* C24: there is a price-impact limit such that no hop whose quote reports
\* more than it has its swap transaction requested or submitted.
C24_PriceImpactLimit ==
  \E limit \in 0..(MaxPriceImpact - 1) :
    \A h \in 1..Len(swaps) :
      swaps[h].priceImpact > limit =>
        (~swaps[h].requested /\ ~swaps[h].submitted)

\* C28: with an empty holder snapshot the allocation list is empty and the
\* cycle ends without error, having submitted no swap and no batch.
C28_EmptySnapshotIsNoOp ==
  (holderCount = 0 /\ pcCycle # "calc") =>
    /\ pcCycle = "done"
    /\ outcome = [status |-> "succeeded", results |-> <<>>]
    /\ distributions = <<>>
    /\ txs = <<>>
    /\ SubmittedSwaps = {}

\* the number of batches of n allocations
CeilDiv(n, d) == (n + d - 1) \div d

\* C25: the allocations are cut, in their order, into batches of BATCH_SIZE:
\* batch t starts after (t - 1) * BATCH_SIZE allocations and holds
\* BATCH_SIZE of them, or the remaining 1 to BATCH_SIZE if it is the last;
\* a finished cycle has sent ceil(n / BATCH_SIZE) batches and every
\* allocation is in exactly one of them.
C25_BatchPartition ==
  /\ \A t \in 1..Len(txs) :
       /\ txs[t].first = BATCH_SIZE * (t - 1)
       /\ txs[t].size = Min(BATCH_SIZE, Len(distributions) - txs[t].first)
       /\ txs[t].size >= 1
  /\ Len(results) <= Len(distributions)
  /\ \A j \in 1..Min(Len(results), Len(distributions)) :
       results[j].holder = distributions[j].address
  /\ outcome.status = "succeeded" =>
       /\ Len(txs) = CeilDiv(Len(distributions), BATCH_SIZE)
       /\ \A k \in 1..Len(distributions) :
            Cardinality({t \in 1..Len(txs) : k \in AllocationsOf(t)}) = 1

\* C25 witness: 12 allocations went out in batches of 5, 5 and 2
C25_Witness ==
  /\ outcome.status = "succeeded"
  /\ Len(distributions) = 12
  /\ Len(txs) = 3
  /\ txs[1].size = 5 /\ txs[2].size = 5 /\ txs[3].size = 2

\* C26: the results stamped with the identifier of a confirmed batch are
\* exactly the allocations of that batch; no result carries the identifier
\* of an unconfirmed batch; after a successful cycle every allocation has a
\* result and every result an identifier.
C26_BatchStamping ==
  /\ \A t \in ConfirmedTxs : \A j \in 1..Len(results) :
       results[j].signature = t <=> j \in AllocationsOf(t)
  /\ \A j \in 1..Len(results) :
       results[j].signature # 0 => results[j].signature \in ConfirmedTxs
  /\ outcome.status = "succeeded" =>
       /\ Len(outcome.results) = Len(distributions)
       /\ \A j \in 1..Len(outcome.results) : outcome.results[j].signature # 0

\* C26 witness: two batches confirmed, each result carries its own batch's
\* identifier
C26_Witness ==
  /\ outcome.status = "succeeded"
  /\ Len(txs) = 2
  /\ outcome.results[BATCH_SIZE].signature = 1
  /\ outcome.results[BATCH_SIZE + 1].signature = 2

\* C27: a batch is confirmed under the secure strategy exactly when its
\* total strictly exceeds the large-transfer threshold, under the standard
\* strategy otherwise.
C27_SecureTierAboveThreshold ==
  \A t \in 1..Len(txs) :
    /\ txs[t].strategy = CONFIRMATION_STRATEGY.SECURE <=> txs[t].total > LargeThreshold
    /\ txs[t].strategy = CONFIRMATION_STRATEGY.STANDARD <=> txs[t].total <= LargeThreshold

\* C31: a batch is declared failed by a submission or confirmation error
\* only after it was submitted maxRetries times (the budget of the
\* TransactionManager).
C31_BatchRetriedBeforeFailure ==
  (failedAt >= 0 /\ built = BatchLength(failedAt)) =>
    sendAttempts = retryConfig.maxRetries

\* C32: a cycle submits a swap or a batch only if the fees read from the
\* fee account are at least minimumFeeAmount.
C32_MinimumFeeGate ==
  (SubmittedSwaps # {} \/ sendAttempts > 0 \/ txs # <<>>) =>
    totalFees >= config.minimumFeeAmount

\* ------------------------------------------------------------------------
\* checkAndTopUpSolBalance and withdrawExcessSol (utils/solBalanceManager)
\* executeTransaction is the one of the "sendOnly" TransactionManager, whose
\* result has the { signature } shape both functions read
\* ------------------------------------------------------------------------

\* granularity of the balances explored: half of MIN_SOL_BALANCE
Step == MIN_SOL_BALANCE \div 2

Other(account) == IF account = "wallet" THEN "feeCollector" ELSE "wallet"

\* walletBalance < topUpAmount, the reserve of MIN_SOL_BALANCE left out
WalletCovers_NoReserve(walletBalance, topUpAmount) ==
  ~(walletBalance < topUpAmount)

\* the negation of: walletBalance < topUpAmount + MIN_SOL_BALANCE
WalletCovers(walletBalance, topUpAmount) ==
  ~(walletBalance < topUpAmount + MIN_SOL_BALANCE)

\* the calls that had returned a signature when a new call is made
Completed ==
  {d \in 1..MaxCalls : calls[d].pc = "returned" /\ calls[d].result = "signature"}

\* calls are numbered in the order they are made
NextCall(c) ==
  /\ calls[c].pc = "idle"
  /\ IF c = 1 THEN TRUE ELSE calls[c - 1].pc # "idle"

InitSentinel ==
  /\ lamports \in [feeCollector : {n * Step : n \in 0..MaxFeeSteps},
                   wallet : {n * Step : n \in 0..MaxWalletSteps}]
  /\ lamports0 = lamports
  /\ calls = [c \in 1..MaxCalls |-> NoCall]
  /\ transfers = <<>>
  /\ RetryAtRest
  /\ SupervisorAtRest
  /\ TxAtRest
  /\ AllocAtRest
  /\ CycleAtRest

\* checkAndTopUpSolBalance: entry, getBalance(feeCollector) and the test
\* balance < MIN_SOL_BALANCE
CheckAndTopUpSolBalance_GetBalance ==
  /\ \E c \in 1..MaxCalls :
       /\ NextCall(c)
       /\ LET balance == lamports.feeCollector
          IN  calls' = [calls EXCEPT ![c] =
                IF balance < MIN_SOL_BALANCE
                  THEN [NoCall EXCEPT !.pc = "getWalletBalance", !.op = "topUp",
                                      !.balance = balance,
                                      !.amount = TARGET_SOL_BALANCE - balance,
                                      !.after = Completed]
                  ELSE [NoCall EXCEPT !.pc = "returned", !.op = "topUp",
                                      !.balance = balance, !.result = "null",
                                      !.after = Completed]]
  /\ UNCHANGED <<lamports, lamports0, transfers>>
  /\ UNCHANGED nonSentinelVars

\* checkAndTopUpSolBalance: getBalance(wallet.publicKey) and the
\* insufficient-funds test
CheckAndTopUpSolBalance_GetWalletBalance ==
  /\ \E c \in 1..MaxCalls :
       /\ calls[c].pc = "getWalletBalance"
       /\ LET walletBalance == lamports.wallet
          IN  calls' = [calls EXCEPT ![c] =
                IF WalletCovers(walletBalance, calls[c].amount)
                  THEN [@ EXCEPT !.pc = "execute", !.walletBalance = walletBalance]
                  ELSE [@ EXCEPT !.pc = "thrown", !.walletBalance = walletBalance,
                                 !.error = "Insufficient SOL in wallet for top-up"]]
  /\ UNCHANGED <<lamports, lamports0, transfers>>
  /\ UNCHANGED nonSentinelVars

\* transactionManager.executeTransaction of call c for a transfer out of
\* `from`: one sendTransaction with preflight; the node accepts the
\* transaction only if its simulation succeeds
ExecuteTransfer(c, from) ==
  \E rpc \in {"preflightErr", "sendErr", "ok"} :
    /\ rpc = "ok" => lamports[from] >= calls[c].amount
    /\ IF rpc = "ok"
         THEN /\ transfers' = Append(transfers,
                                [by |-> c, from |-> from,
                                 lamports |-> calls[c].amount,
                                 status |-> "pending"])
              /\ calls' = [calls EXCEPT ![c] =
                            [@ EXCEPT !.pc = "returned", !.result = "signature"]]
         ELSE /\ calls' = [calls EXCEPT ![c] =
                            [@ EXCEPT !.pc = "thrown", !.error = rpc]]
              /\ UNCHANGED transfers

\* checkAndTopUpSolBalance: the transfer wallet -> feeCollector
CheckAndTopUpSolBalance_Execute ==
  /\ \E c \in 1..MaxCalls :
       /\ calls[c].pc = "execute"
       /\ calls[c].op = "topUp"
       /\ ExecuteTransfer(c, "wallet")
  /\ UNCHANGED <<lamports, lamports0>>
  /\ UNCHANGED nonSentinelVars

\* withdrawExcessSol: entry, getBalance(feeCollector.publicKey) and the test
\* balance > TARGET_SOL_BALANCE
WithdrawExcessSol_GetBalance ==
  /\ \E c \in 1..MaxCalls :
       /\ NextCall(c)
       /\ LET balance == lamports.feeCollector
          IN  calls' = [calls EXCEPT ![c] =
                IF balance > TARGET_SOL_BALANCE
                  THEN [NoCall EXCEPT !.pc = "execute", !.op = "withdraw",
                                      !.balance = balance,
                                      !.amount = balance - TARGET_SOL_BALANCE,
                                      !.after = Completed]
                  ELSE [NoCall EXCEPT !.pc = "returned", !.op = "withdraw",
                                      !.balance = balance, !.result = "null",
                                      !.after = Completed]]
  /\ UNCHANGED <<lamports, lamports0, transfers>>
  /\ UNCHANGED nonSentinelVars

\* withdrawExcessSol: the transfer feeCollector -> wallet
WithdrawExcessSol_Execute ==
  /\ \E c \in 1..MaxCalls :
       /\ calls[c].pc = "execute"
       /\ calls[c].op = "withdraw"
       /\ ExecuteTransfer(c, "feeCollector")
  /\ UNCHANGED <<lamports, lamports0>>
  /\ UNCHANGED nonSentinelVars

\* the network executes a submitted transfer; it fails on chain when the
\* source no longer holds the amount
TransferLands ==
  /\ \E k \in 1..Len(transfers) :
       /\ transfers[k].status = "pending"
       /\ LET t == transfers[k]
          IN  IF lamports[t.from] >= t.lamports
                THEN /\ lamports' = [lamports EXCEPT
                                       ![t.from] = @ - t.lamports,
                                       ![Other(t.from)] = @ + t.lamports]
                     /\ transfers' = [transfers EXCEPT ![k].status = "landed"]
                ELSE /\ transfers' = [transfers EXCEPT ![k].status = "failed"]
                     /\ UNCHANGED lamports
  /\ UNCHANGED <<lamports0, calls>>
  /\ UNCHANGED nonSentinelVars

\* the network never executes a submitted transfer
TransferDropped ==
  /\ \E k \in 1..Len(transfers) :
       /\ transfers[k].status = "pending"
       /\ transfers' = [transfers EXCEPT ![k].status = "dropped"]
  /\ UNCHANGED <<lamports, lamports0, calls>>
  /\ UNCHANGED nonSentinelVars

NextSentinel ==
  \/ CheckAndTopUpSolBalance_GetBalance
  \/ CheckAndTopUpSolBalance_GetWalletBalance
  \/ CheckAndTopUpSolBalance_Execute
  \/ WithdrawExcessSol_GetBalance
  \/ WithdrawExcessSol_Execute
  \/ TransferLands
  \/ TransferDropped

SpecSentinel == InitSentinel /\ [][NextSentinel]_vars

\* ------------------------------------------------------------------------
\* Properties of the balance sentinel
\* ------------------------------------------------------------------------

\* no other call of the sentinel has been made
OnlyCall(c) == \A d \in 1..MaxCalls : d # c => calls[d].pc = "idle"

\* the transfers call c has submitted
TransfersBy(c) == {k \in 1..Len(transfers) : transfers[k].by = c}

RECURSIVE SumLanded(_, _)
SumLanded(c, k) ==
  IF k = 0 THEN 0
  ELSE SumLanded(c, k - 1) +
       (IF transfers[k].by = c /\ transfers[k].status = "landed"
          THEN transfers[k].lamports ELSE 0)

\* lamports moved by the transfers of call c
LandedBy(c) == SumLanded(c, Len(transfers))

\* C11: once a top-up call made with balance b below MIN_SOL_BALANCE and a
\* sufficient wallet has returned its signature, exactly
\* TARGET_SOL_BALANCE - b has been transferred and the fee collector holds
\* TARGET_SOL_BALANCE (no other call made).
C11_TopUpReachesTarget ==
  \A c \in 1..MaxCalls :
    ( /\ calls[c].op = "topUp"
      /\ calls[c].pc = "returned"
      /\ calls[c].result = "signature"
      /\ OnlyCall(c) ) =>
        /\ LandedBy(c) = TARGET_SOL_BALANCE - calls[c].balance
        /\ lamports.feeCollector = TARGET_SOL_BALANCE

\* C12: a top-up call that read a balance below MIN_SOL_BALANCE and a wallet
\* balance below (TARGET_SOL_BALANCE - balance) + MIN_SOL_BALANCE ends with
\* the insufficient-funds error and submits no transfer; with no other call
\* made, both balances are what they were.
C12_InsufficientWallet ==
  \A c \in 1..MaxCalls :
    ( /\ calls[c].op = "topUp"
      /\ calls[c].pc \in {"execute", "returned", "thrown"}
      /\ calls[c].balance < MIN_SOL_BALANCE
      /\ calls[c].walletBalance <
           (TARGET_SOL_BALANCE - calls[c].balance) + MIN_SOL_BALANCE ) =>
        /\ calls[c].pc = "thrown"
        /\ calls[c].error = "Insufficient SOL in wallet for top-up"
        /\ TransfersBy(c) = {}
        /\ OnlyCall(c) => lamports = lamports0

\* C12 witness: the wallet would cover the gap but not its own reserve
C12_Witness ==
  \E c \in 1..MaxCalls :
    /\ calls[c].op = "topUp"
    /\ calls[c].pc = "thrown"
    /\ calls[c].error = "Insufficient SOL in wallet for top-up"
    /\ calls[c].balance > 0
    /\ calls[c].walletBalance >= TARGET_SOL_BALANCE - calls[c].balance

\* C13: a top-up call that reads balance >= MIN_SOL_BALANCE and a sweep
\* that reads balance <= TARGET_SOL_BALANCE return null and submit no
\* transfer; a call made after a call of the same operation has returned
\* its signature submits no transfer.
C13_InBandIsNoOp ==
  \A c \in 1..MaxCalls :
    /\ (calls[c].op = "topUp" /\ calls[c].balance >= MIN_SOL_BALANCE) =>
         (calls[c].pc = "returned" /\ calls[c].result = "null" /\ TransfersBy(c) = {})
    /\ (calls[c].op = "withdraw" /\ calls[c].balance <= TARGET_SOL_BALANCE) =>
         (calls[c].pc = "returned" /\ calls[c].result = "null" /\ TransfersBy(c) = {})
    /\ (\E d \in calls[c].after : calls[d].op = calls[c].op) =>
         TransfersBy(c) = {}

\* C33: under any interleaving of top-up calls on the same fee-collection
\* account, the top-ups never raise its balance above TARGET_SOL_BALANCE.
C33_InterleavedTopUps ==
  ( /\ \A c \in 1..MaxCalls : calls[c].op \in {"none", "topUp"}
    /\ lamports0.feeCollector <= TARGET_SOL_BALANCE ) =>
      lamports.feeCollector <= TARGET_SOL_BALANCE

\* ------------------------------------------------------------------------
\* retry (utils/retry)
\* Time is counted in seconds from the call. fn returns a promise that is
\* either settled already when Promise.race subscribes to it ("settled")
\* or settles in a later task ("pending").
\* ------------------------------------------------------------------------

\* the default backoff: Math.min(1000 * Math.pow(2, retryCount), 10000) ms
Backoff(rc) == Min(Pow(2, rc), 10)

\* one more attempt than the loop condition allows
AttemptsRemain_OneMore(rc) == rc <= options.maxRetries + 1

\* the loop condition retryCount <= maxRetries, and the negation of the
\* break condition retryCount > maxRetries
AttemptsRemain(rc) == rc <= options.maxRetries

\* a timeout timer armed at the start of each attempt
TimerFired_PerAttempt(startedAt) == clock - startedAt >= options.timeout

\* timeoutPromise: one timer, armed when retry() is called; it has rejected
\* once timeout has passed since the call
TimerFired(startedAt) == clock >= options.timeout

\* the result with which the n-th invocation of fn resolves
ResultOf(n) == <<"result", n>>

\* the error with which the n-th invocation of fn rejects
ErrorOf(n) == <<"fn", n>>

\* new TimeoutError(`Operation timed out after ${timeout}ms`)
TimeoutError == <<"timeout", options.timeout>>

InitRetry ==
  /\ options \in [maxRetries : 0..MaxFnRetries, timeout : 1..MaxFnTimeout]
  /\ RetryCalled
  /\ SupervisorAtRest
  /\ TxAtRest
  /\ AllocAtRest
  /\ CycleAtRest
  /\ SentinelAtRest

\* the catch block: lastError, retryCount++, break or go on to the wait
Catch(error) ==
  /\ retryLocals' = [retryCount |-> retryLocals.retryCount + 1,
                     lastError |-> error]
  /\ failedAttempts' =
       Append(failedAttempts,
              [call |-> fnCalls, error |-> error, startedAt |-> attempt.startedAt,
               at |-> clock, promise |-> attempt.promise])
  /\ IF AttemptsRemain(retryLocals.retryCount + 1)
       THEN /\ retryPc' = "backoff"
            /\ UNCHANGED rejected
       ELSE /\ retryPc' = "thrown"
            /\ rejected' = [retries |-> retryLocals.retryCount + 1,
                            lastError |-> error]

\* the loop condition holds: fn() is invoked and raced with timeoutPromise
Retry_InvokeFn ==
  /\ retryPc = "loop"
  /\ AttemptsRemain(retryLocals.retryCount)
  /\ \E promise \in {"settled", "pending"} :
       attempt' = [startedAt |-> clock, promise |-> promise]
  /\ fnCalls' = fnCalls + 1
  /\ retryPc' = "race"
  /\ UNCHANGED <<options, retryLocals, clock, failedAttempts, returned, rejected>>
  /\ UNCHANGED nonRetryVars

\* the race resolves with the result of fn: return { result, retryCount }
Retry_FnResolves ==
  /\ retryPc = "race"
  /\ IF attempt.promise = "settled" THEN TRUE ELSE ~TimerFired(attempt.startedAt)
  /\ returned' = [result |-> ResultOf(fnCalls),
                  retryCount |-> retryLocals.retryCount]
  /\ retryPc' = "returned"
  /\ UNCHANGED <<options, retryLocals, clock, fnCalls, attempt, failedAttempts,
                 rejected>>
  /\ UNCHANGED nonRetryVars

\* the race rejects with the error of fn
Retry_FnRejects ==
  /\ retryPc = "race"
  /\ IF attempt.promise = "settled" THEN TRUE ELSE ~TimerFired(attempt.startedAt)
  /\ Catch(ErrorOf(fnCalls))
  /\ UNCHANGED <<options, clock, fnCalls, attempt, returned>>
  /\ UNCHANGED nonRetryVars

\* the race rejects with the rejection of timeoutPromise
Retry_TimeoutWins ==
  /\ retryPc = "race"
  /\ attempt.promise = "pending"
  /\ TimerFired(attempt.startedAt)
  /\ Catch(TimeoutError)
  /\ UNCHANGED <<options, clock, fnCalls, attempt, returned>>
  /\ UNCHANGED nonRetryVars

\* a second passes while fn is pending
Retry_Tick ==
  /\ retryPc = "race"
  /\ attempt.promise = "pending"
  /\ ~TimerFired(attempt.startedAt)
  /\ clock' = clock + 1
  /\ UNCHANGED <<options, retryPc, retryLocals, fnCalls, attempt,
                 failedAttempts, returned, rejected>>
  /\ UNCHANGED nonRetryVars

\* await new Promise(resolve => setTimeout(resolve, backoff(retryCount)))
Retry_Backoff ==
  /\ retryPc = "backoff"
  /\ clock' = clock + Backoff(retryLocals.retryCount)
  /\ retryPc' = "loop"
  /\ UNCHANGED <<options, retryLocals, fnCalls, attempt, failedAttempts,
                 returned, rejected>>
  /\ UNCHANGED nonRetryVars

NextRetry ==
  \/ Retry_InvokeFn
  \/ Retry_FnResolves
  \/ Retry_FnRejects
  \/ Retry_TimeoutWins
  \/ Retry_Tick
  \/ Retry_Backoff

SpecRetry == InitRetry /\ [][NextRetry]_vars

\* C37: fn is invoked at most maxRetries + 1 times; a successful attempt's
\* result is returned with retryCount = the number of attempts that failed
\* before it; when every attempt failed, one error carrying the last
\* attempt's error message is thrown.
C37_RetryContract ==
  /\ fnCalls <= options.maxRetries + 1
  /\ \A k \in 1..Len(failedAttempts) :
       /\ failedAttempts[k].call = k
       /\ failedAttempts[k].error \in {ErrorOf(k), TimeoutError}
  /\ retryPc = "returned" =>
       /\ returned.result = ResultOf(fnCalls)
       /\ returned.retryCount = Len(failedAttempts)
       /\ Len(failedAttempts) = fnCalls - 1
       /\ rejected = NoRejection
  /\ retryPc = "thrown" =>
       /\ fnCalls = options.maxRetries + 1
       /\ Len(failedAttempts) = fnCalls
       /\ rejected.lastError = failedAttempts[fnCalls].error
       /\ returned = NoReturn
  /\ retryPc \notin {"returned", "thrown"} =>
       (returned = NoReturn /\ rejected = NoRejection)

\* C37 witness: the third attempt succeeded after two failed ones
C37_Witness ==
  /\ retryPc = "returned"
  /\ returned.retryCount = 2
  /\ fnCalls = options.maxRetries + 1

====
